---- MODULE Spec2Model ----
(***************************************************************************)
(* The tterm PTY daemon: the session registry (SessionManager), the        *)
(* sessions it owns (PtySession), the per-connection dispatcher            *)
(* (handle_client_connection / PtyDaemon::handle_client_message) and the   *)
(* periodic orphan sweep (the cleanup task of PtyDaemon::run).             *)
(*                                                                         *)
(* Every handler runs with the daemon mutex held, so one handler is one    *)
(* atomic action.  Time is a monotone clock counted in ticks of            *)
(* 1/TicksPerSec second; SystemTime::now() is the value of `now`.          *)
(***************************************************************************)
EXTENDS Integers, Sequences, FiniteSets, TLC

(***************************************************************************)
(* Universe of the model.                                                  *)
(***************************************************************************)
\* Session ids the clients choose (Uuid).
SessionIds == {"s1", "s2"}
\* Ids the daemon allocates, one per accepted connection (Uuid::new_v4 in
\* handle_client_connection).
ConnIds == {"k1", "k2"}
\* Ids a client may put in the client_id field of a message: the id of a
\* connection, or an id the client process made up itself (DaemonClient::new
\* draws its own Uuid, which is no connection's id).
ClientIds == ConnIds \cup {"x"}
\* Byte chunks carried by raw-bytes frames, SendInput and PTY output.
Chunks == {"a"}
\* The connections and client ids the specifications below let act.
ActiveConns == {"k1"}
ActiveClients == ActiveConns \cup {"x"}
\* The one session id of the specification with channels and sweep together.
OneSession == {"s1"}

\* Ticks per second of the model clock (resolution below one second).
TicksPerSec == 2
\* The clock visits the instants f and orphan_timeout + f ticks, f <= MaxFrac.
MaxFrac == 2
\* Capacity kept for each session channel in the model (the channels of the
\* program are unbounded).
MaxQueue == 1
\* Chunks that go through one PTY, in each direction, where they are numbered.
MaxChunks == 4

\* SessionManager::new: orphan_timeout_seconds.
orphan_timeout_seconds == 300

NoTime == 0 - 1

VARIABLES
    sessions,        \* SessionManager.sessions: session id -> PtySession
    client_sessions, \* PtyDaemon.client_sessions: client id -> session id
    conns,           \* each connection: "none" (not accepted), "open", "closed"
    now,             \* the clock, in ticks
    last,            \* the last frame handled and the reply it got
    emptiedAt,       \* per session id: when a detach last left it orphaned
    via,             \* per connection: the client ids attached through it
    pty,             \* per session id: what went through its PTY, numbered
    peer,            \* per connection: its pusher task and its socket
    wire,            \* per connection: the frame on its read half
    mutex            \* the task that holds the daemon mutex, or "free"

\* The PTY side, the socket side and the bytes on the wire, which the registry
\* handlers do not touch, and the daemon mutex, which a handler written as one
\* action takes and gives back within that action.
io == <<pty, peer, wire, mutex>>

vars == <<sessions, client_sessions, conns, now, last, emptiedAt, via, pty,
          peer, wire, mutex>>

(***************************************************************************)
(* HashMap helpers.                                                        *)
(***************************************************************************)
Put(m, k, v) == [x \in DOMAIN m \cup {k} |-> IF x = k THEN v ELSE m[x]]

Remove(m, k) == [x \in DOMAIN m \ {k} |-> m[x]]

Contains(seq, c) == \E i \in 1..Len(seq) : seq[i] = c

\* Vec::retain(|&id| id != c)
RECURSIVE Retain(_, _)
Retain(seq, c) ==
    IF seq = <<>> THEN <<>>
    ELSE IF Head(seq) = c THEN Retain(Tail(seq), c)
         ELSE <<Head(seq)>> \o Retain(Tail(seq), c)

\* Number of occurrences of c in seq.
Count(seq, c) == Cardinality({i \in 1..Len(seq) : seq[i] = c})

(***************************************************************************)
(* PtySession                                                              *)
(***************************************************************************)
\* PtySession::new: no client attached, last_activity = now, both channels
\* empty.
NewSession(t) ==
    [attached_clients |-> <<>>, last_activity |-> t,
     input |-> <<>>, output |-> <<>>,
     child |-> "running", writer |-> "live", reader |-> "live"]

PushUnchecked(sess, c, t) ==
    [sess EXCEPT !.attached_clients = Append(@, c), !.last_activity = t]

\* PtySession::attach_client
attach_client(sess, c, t) ==
    IF ~Contains(sess.attached_clients, c)
    THEN [sess EXCEPT !.attached_clients = Append(@, c), !.last_activity = t]
    ELSE sess

DetachNoRefresh(sess, c, t) ==
    [sess EXCEPT !.attached_clients = Retain(@, c)]

\* PtySession::detach_client
detach_client(sess, c, t) ==
    [sess EXCEPT !.attached_clients = Retain(@, c), !.last_activity = t]

\* PtySession::send_input (the sender is always Some after initialize_pty)
SendInputFront(sess, d, t) ==
    [sess EXCEPT !.input = <<d>> \o @, !.last_activity = t]

send_input(sess, d, t) ==
    [sess EXCEPT !.input = Append(@, d), !.last_activity = t]

\* PtySession::read_output: try_recv on the output channel.
read_output(sess, t) ==
    IF sess.output # <<>>
    THEN [data |-> <<Head(sess.output)>>,
          sess |-> [sess EXCEPT !.output = Tail(@), !.last_activity = t]]
    ELSE [data |-> <<>>, sess |-> sess]

\* PtySession::is_orphaned
is_orphaned(sess) == sess.attached_clients = <<>>

\* Duration::as_secs of now - last_activity
as_secs(ticks) == ticks \div TicksPerSec

CleanupIgnoringAttached(sess, timeout_seconds, t) ==
    t >= sess.last_activity /\ as_secs(t - sess.last_activity) > timeout_seconds

CleanupOffByOne(sess, timeout_seconds, t) ==
    /\ is_orphaned(sess)
    /\ t >= sess.last_activity
    /\ as_secs(t - sess.last_activity) > timeout_seconds + 1

\* PtySession::should_cleanup
should_cleanup(sess, timeout_seconds, t) ==
    IF ~is_orphaned(sess) THEN FALSE
    ELSE IF t >= sess.last_activity
         THEN as_secs(t - sess.last_activity) > timeout_seconds
         ELSE FALSE

(***************************************************************************)
(* SessionManager: every operation returns [ok, err, sessions].            *)
(***************************************************************************)
Ok(m) == [ok |-> TRUE, err |-> "", sessions |-> m]

Err(e, m) == [ok |-> FALSE, err |-> e, sessions |-> m]

CreateOverwriting(m, s, t, spawn_ok) ==
    IF ~spawn_ok THEN Err("Spawn", m) ELSE Ok(Put(m, s, NewSession(t)))

\* SessionManager::create_session
create_session(m, s, t, spawn_ok) ==
    IF s \in DOMAIN m THEN Err("AlreadyExists", m)
    ELSE IF ~spawn_ok THEN Err("Spawn", m)
    ELSE Ok(Put(m, s, NewSession(t)))

\* SessionManager::terminate_session
TerminateAll(m, s) ==
    IF s \in DOMAIN m THEN Ok(<<>>) ELSE Err("NotFound", m)

terminate_session(m, s) ==
    IF s \in DOMAIN m THEN Ok(Remove(m, s)) ELSE Err("NotFound", m)

\* SessionManager::attach_client_to_session
AttachNothing(m, s, c, t) ==
    IF s \in DOMAIN m THEN Ok(m) ELSE Err("NotFound", m)

attach_client_to_session(m, s, c, t) ==
    IF s \in DOMAIN m THEN Ok([m EXCEPT ![s] = attach_client(@, c, t)])
    ELSE Err("NotFound", m)

DetachMissingOk(m, s, c, t) ==
    IF s \in DOMAIN m THEN Ok([m EXCEPT ![s] = detach_client(@, c, t)])
    ELSE Ok(m)

\* SessionManager::detach_client_from_session
detach_client_from_session(m, s, c, t) ==
    IF s \in DOMAIN m THEN Ok([m EXCEPT ![s] = detach_client(@, c, t)])
    ELSE Err("NotFound", m)

\* SessionManager::send_input_to_session
send_input_to_session(m, s, d, t) ==
    IF s \in DOMAIN m THEN Ok([m EXCEPT ![s] = send_input(@, d, t)])
    ELSE Err("NotFound", m)

\* SessionManager::read_output_from_session: [ok, err, sessions, data]
read_output_from_session(m, s, t) ==
    IF s \in DOMAIN m
    THEN [ok |-> TRUE, err |-> "",
          sessions |-> [m EXCEPT ![s] = read_output(m[s], t).sess],
          data |-> read_output(m[s], t).data]
    ELSE [ok |-> FALSE, err |-> "NotFound", sessions |-> m, data |-> <<>>]

\* SessionManager::resize_session; pty_ok: whether the master accepted the
\* new size.
resize_session(m, s, pty_ok) ==
    IF s \in DOMAIN m
    THEN (IF pty_ok THEN Ok(m) ELSE Err("Resize", m))
    ELSE Err("NotFound", m)

\* SessionManager::list_sessions: one SessionInfo per entry of the map.
list_sessions(m) ==
    {[id |-> s, attached_clients |-> m[s].attached_clients,
      last_activity |-> m[s].last_activity] : s \in DOMAIN m}

\* SessionManager::cleanup_orphaned_sessions
cleanup_orphaned_sessions(m, t) ==
    [s \in {x \in DOMAIN m : ~should_cleanup(m[x], orphan_timeout_seconds, t)}
        |-> m[s]]

(***************************************************************************)
(* The wire codec (ProtocolMessage, TerminalData).  A byte string is kept  *)
(* as its length and what it holds: Blob(n, text) is n bytes holding text. *)
(* A frame is its 4 prefix bytes and the bytes after them: none, or a tag   *)
(* byte and a blob.                                                        *)
(***************************************************************************)
MSG_TYPE_JSON == 0
MSG_TYPE_BYTES == 1

\* The limit of read_from_stream.
MaxMessageLength == 1024 * 1024

Blob(n, text) == [n |-> n, text |-> text]

\* The first n bytes of a blob.
Cut(blob, n) ==
    IF n = blob.n THEN blob ELSE Blob(n, <<"cut">> \o blob.text)

\* u32::to_be_bytes and u32::from_be_bytes.
to_be_bytes(n) ==
    <<(n \div 16777216) % 256, (n \div 65536) % 256, (n \div 256) % 256,
      n % 256>>

from_be_bytes(b) == b[1] * 16777216 + b[2] * 65536 + b[3] * 256 + b[4]

NoMsg == [type |-> "none"]

\* serde_json::to_string of a JsonMessage: an externally tagged text whose
\* length follows the strings in the message (len).
to_string(json) ==
    Blob(json.len, <<"json", json.side, json.variant, json.session_id>>)

\* The variants of ClientMessage and of DaemonMessage.
ClientVariants ==
    {"RegisterClient", "RegisterAndCreateSession", "AttachToSession",
     "DetachFromSession", "SendInput", "ResizeSession", "ReadOutput",
     "ListSessions", "TerminateSession", "Disconnect"}

DaemonVariants ==
    {"ClientRegistered", "SessionCreated", "SessionOutput",
     "SessionTerminated", "SessionList", "Error"}

\* serde_json::from_str::<JsonMessage>: the text has to name a variant of
\* the enum of its side; white space between the tokens ("ws": one byte of
\* it) is skipped and is not part of the value.
from_str(blob) ==
    IF /\ Len(blob.text) \in {4, 5}
       /\ blob.text[1] = "json"
       /\ \/ blob.text[2] = "Client" /\ blob.text[3] \in ClientVariants
          \/ blob.text[2] = "Daemon" /\ blob.text[3] \in DaemonVariants
       /\ Len(blob.text) = 5 => blob.text[5] = "ws"
    THEN [ok |-> TRUE,
          json |-> [side |-> blob.text[2], variant |-> blob.text[3],
                    session_id |-> blob.text[4],
                    len |-> blob.n - (Len(blob.text) - 4)]]
    ELSE [ok |-> FALSE, json |-> NoMsg]

\* The bytes a payload is made of: the tag byte and the rest.
Payload(msg) ==
    IF msg.type = "Json"
    THEN [tag |-> MSG_TYPE_JSON, rest |-> to_string(msg.json)]
    ELSE [tag |-> MSG_TYPE_BYTES, rest |-> msg.data]

ToBytesCountingPayloadOnly(msg) ==
    [prefix |-> to_be_bytes(Payload(msg).rest.n), body |-> <<Payload(msg)>>]

\* ProtocolMessage::to_bytes
to_bytes(msg) ==
    [prefix |-> to_be_bytes(1 + Payload(msg).rest.n), body |-> <<Payload(msg)>>]

\* TerminalData::to_protocol_bytes
to_protocol_bytes(data) ==
    [prefix |-> to_be_bytes(1 + data.n),
     body |-> <<[tag |-> MSG_TYPE_BYTES, rest |-> data]>>]

\* ProtocolMessage::from_bytes, on the bytes after the prefix.
from_bytes(data) ==
    IF data = <<>>
    THEN [ok |-> FALSE, err |-> "Empty data", msg |-> NoMsg]
    ELSE IF data[1].tag = MSG_TYPE_JSON
    THEN LET j == from_str(data[1].rest)
         IN IF j.ok
            THEN [ok |-> TRUE, err |-> "",
                  msg |-> [type |-> "Json", json |-> j.json]]
            ELSE [ok |-> FALSE, err |-> "serde_json", msg |-> NoMsg]
    ELSE IF data[1].tag = MSG_TYPE_BYTES
    THEN [ok |-> TRUE, err |-> "",
          msg |-> [type |-> "Bytes", data |-> data[1].rest]]
    ELSE [ok |-> FALSE, err |-> "Unknown message type", msg |-> NoMsg]

\* Number of bytes after the prefix.
BodyLen(f) == IF f.body = <<>> THEN 0 ELSE 1 + f.body[1].rest.n

\* read_exact of n <= BodyLen(f) bytes after the prefix.
Take(f, n) ==
    IF n = 0 THEN <<>>
    ELSE <<[tag |-> f.body[1].tag, rest |-> Cut(f.body[1].rest, n - 1)]>>

ReadRejectingAtLimit(f) ==
    LET message_length == from_be_bytes(f.prefix)
    IN IF message_length >= MaxMessageLength
       THEN [ok |-> FALSE, err |-> "Message too large", msg |-> NoMsg,
             consumed |-> 4]
       ELSE IF BodyLen(f) < message_length
       THEN [ok |-> FALSE, err |-> "UnexpectedEof", msg |-> NoMsg,
             consumed |-> 4 + BodyLen(f)]
       ELSE [ok |-> from_bytes(Take(f, message_length)).ok,
             err |-> from_bytes(Take(f, message_length)).err,
             msg |-> from_bytes(Take(f, message_length)).msg,
             consumed |-> 4 + message_length]

ReadBodyFirst(f) ==
    LET message_length == from_be_bytes(f.prefix)
    IN IF BodyLen(f) < message_length
       THEN [ok |-> FALSE, err |-> "UnexpectedEof", msg |-> NoMsg,
             consumed |-> 4 + BodyLen(f)]
       ELSE IF message_length > MaxMessageLength
       THEN [ok |-> FALSE, err |-> "Message too large", msg |-> NoMsg,
             consumed |-> 4 + message_length]
       ELSE [ok |-> from_bytes(Take(f, message_length)).ok,
             err |-> from_bytes(Take(f, message_length)).err,
             msg |-> from_bytes(Take(f, message_length)).msg,
             consumed |-> 4 + message_length]

\* ProtocolMessage::read_from_stream on a stream that holds frame f and then
\* ends: the result and the number of bytes taken from the stream.
read_from_stream(f) ==
    LET message_length == from_be_bytes(f.prefix)
    IN IF message_length > MaxMessageLength
       THEN [ok |-> FALSE, err |-> "Message too large", msg |-> NoMsg,
             consumed |-> 4]
       ELSE IF BodyLen(f) < message_length
       THEN [ok |-> FALSE, err |-> "UnexpectedEof", msg |-> NoMsg,
             consumed |-> 4 + BodyLen(f)]
       ELSE [ok |-> from_bytes(Take(f, message_length)).ok,
             err |-> from_bytes(Take(f, message_length)).err,
             msg |-> from_bytes(Take(f, message_length)).msg,
             consumed |-> 4 + message_length]

\* What the model's clients send.  Lengths of payloads after the tag byte:
\* short ones and the ones around the limit.
DataSizes == {0, 1, MaxMessageLength - 1, MaxMessageLength}
JsonSizes == {64, MaxMessageLength - 1, MaxMessageLength}

JsonMessages ==
    {[side |-> "Client", variant |-> "RegisterAndCreateSession",
      session_id |-> s, len |-> n] : s \in OneSession, n \in JsonSizes}
    \cup {[side |-> "Daemon", variant |-> "SessionTerminated",
           session_id |-> s, len |-> n] : s \in OneSession, n \in JsonSizes}

Texts == {<<"json", "Client", "RegisterAndCreateSession", "s1">>, <<"junk">>}

\* Control payloads no encoder of this program writes: a message with white
\* space after a token, and a message of a variant the daemon does not have.
OtherTexts ==
    {<<"json", "Client", "RegisterAndCreateSession", "s1", "ws">>,
     <<"json", "Client", "Ping", "s1">>}

Messages ==
    {[type |-> "Json", json |-> j] : j \in JsonMessages}
    \cup {[type |-> "Bytes", data |-> Blob(n, t)] : n \in DataSizes, t \in Texts}

\* Prefixes and bodies of frames that no encoder made.
Prefixes ==
    {<<a, b, 0, d>> : a \in {0, 127}, b \in {0, 16}, d \in {0, 1, 65}}

Bodies ==
    {<<>>} \cup {<<[tag |-> g, rest |-> Blob(n, t)]>> :
                    g \in {MSG_TYPE_JSON, MSG_TYPE_BYTES, 254},
                    n \in {64, MaxMessageLength - 1}, t \in Texts}
    \cup {<<[tag |-> MSG_TYPE_JSON, rest |-> Blob(64, t)]>> : t \in OtherTexts}

NoResult == [ok |-> FALSE, err |-> "", msg |-> NoMsg, consumed |-> 0]

\* The read half of a connection before any frame: phase is "idle", "sent" (a
\* frame waits to be read) or "read"; state is "reading" while the message
\* loop runs and "broken" once a read has failed.
NoWire ==
    [phase |-> "idle", frame |-> [prefix |-> <<0, 0, 0, 0>>, body |-> <<>>],
     origin |-> NoMsg, result |-> NoResult, state |-> "reading"]

(***************************************************************************)
(* The dispatcher.                                                         *)
(***************************************************************************)
Reply(r, okReply) == IF r.ok THEN okReply ELSE "Error:" \o r.err

\* What the model remembers of the last frame handled: the message, the
\* connection it came on, its session_id and client_id fields, the reply, and
\* whether the client id was in the session's attached list beforehand.
Frame(op, k, s, c, reply) ==
    [op |-> op, conn |-> k, sid |-> s, cid |-> c, reply |-> reply,
     present |-> s \in DOMAIN sessions
                 /\ Contains(sessions[s].attached_clients, c)]

Orphaned(m, s) == s \in DOMAIN m /\ is_orphaned(m[s])

Init ==
    /\ sessions = <<>>
    /\ client_sessions = <<>>
    /\ conns = [k \in ConnIds |-> "none"]
    /\ now = 0
    /\ last = [op |-> "none", conn |-> "none", sid |-> "none", cid |-> "none",
               reply |-> "None", present |-> FALSE]
    /\ emptiedAt = [s \in SessionIds |-> NoTime]
    /\ via = [k \in ConnIds |-> {}]
    /\ pty = [s \in SessionIds |->
                [accepted |-> 0, written |-> <<>>, produced |-> 0,
                 writing |-> <<>>, reading |-> FALSE,
                 shell |-> "none", input_task |-> "none",
                 output_task |-> "none"]]
    /\ peer = [k \in ConnIds |->
                [push |-> [pc |-> "poll", sid |-> "none", data |-> <<>>],
                 pending |-> <<>>, rcvd |-> <<>>,
                 wlock |-> "free", wpos |-> 0, sent |-> <<>>,
                 client |-> "reading"]]
    /\ wire = [k \in ConnIds |-> NoWire]
    /\ mutex = "free"

\* PtyDaemon::run, listener.accept: a dispatcher with a fresh client id.
Accept(k) ==
    /\ conns[k] = "none"
    /\ conns' = [conns EXCEPT ![k] = "open"]
    /\ last' = Frame("Accept", k, "none", "none", "None")
    /\ UNCHANGED <<sessions, client_sessions, now, emptiedAt, via>>
    /\ UNCHANGED io

\* ClientMessage::RegisterClient
RegisterClient(k, c) ==
    /\ conns[k] = "open"
    /\ last' = Frame("RegisterClient", k, "none", c, "ClientRegistered")
    /\ UNCHANGED <<sessions, client_sessions, conns, now, emptiedAt, via>>
    /\ UNCHANGED io

\* ClientMessage::RegisterAndCreateSession
CreateSessionStep(k, s, spawn_ok) ==
    /\ conns[k] = "open"
    /\ LET r == create_session(sessions, s, now, spawn_ok)
           a == attach_client_to_session(r.sessions, s, k, now)
       IN IF r.ok
          THEN /\ sessions' = a.sessions
               /\ client_sessions' =
                    IF a.ok THEN Put(client_sessions, k, s) ELSE client_sessions
               /\ emptiedAt' = [emptiedAt EXCEPT ![s] = NoTime]
               /\ via' = [via EXCEPT ![k] = @ \cup {k}]
               /\ last' = Frame("CreateSession", k, s, k, "SessionCreated")
          ELSE /\ last' = Frame("CreateSession", k, s, k, Reply(r, ""))
               /\ UNCHANGED <<sessions, client_sessions, emptiedAt, via>>
    /\ UNCHANGED <<conns, now>>

CreateSession(k, s, spawn_ok) ==
    CreateSessionStep(k, s, spawn_ok) /\ UNCHANGED io

\* ClientMessage::AttachToSession { session_id: s, client_id: c }
AttachToSession(k, s, c) ==
    /\ conns[k] = "open"
    /\ LET r == attach_client_to_session(sessions, s, c, now)
       IN /\ sessions' = r.sessions
          /\ IF r.ok
             THEN /\ client_sessions' = Put(client_sessions, c, s)
                  /\ emptiedAt' = [emptiedAt EXCEPT ![s] = NoTime]
                  /\ via' = [via EXCEPT ![k] = @ \cup {c}]
             ELSE UNCHANGED <<client_sessions, emptiedAt, via>>
          /\ last' = Frame("AttachToSession", k, s, c, Reply(r, "None"))
    /\ UNCHANGED <<conns, now>>
    /\ UNCHANGED io

\* ClientMessage::DetachFromSession { session_id: s, client_id: c }
DetachFromSession(k, s, c) ==
    /\ conns[k] = "open"
    /\ LET r == detach_client_from_session(sessions, s, c, now)
       IN /\ sessions' = r.sessions
          /\ IF r.ok
             THEN /\ client_sessions' = Remove(client_sessions, c)
                  /\ emptiedAt' =
                       IF Orphaned(r.sessions, s)
                       THEN [emptiedAt EXCEPT ![s] = now] ELSE emptiedAt
             ELSE UNCHANGED <<client_sessions, emptiedAt>>
          /\ last' = Frame("DetachFromSession", k, s, c, Reply(r, "None"))
    /\ UNCHANGED <<conns, now, via>>
    /\ UNCHANGED io

\* ClientMessage::TerminateSession
TerminateSession(k, s) ==
    /\ conns[k] = "open"
    /\ LET r == terminate_session(sessions, s)
       IN /\ sessions' = r.sessions
          /\ emptiedAt' = IF r.ok THEN [emptiedAt EXCEPT ![s] = NoTime]
                          ELSE emptiedAt
          /\ last' = Frame("TerminateSession", k, s, "none",
                           Reply(r, "SessionTerminated"))
    /\ UNCHANGED <<client_sessions, conns, now, via>>
    /\ UNCHANGED io

DisconnectEveryone(m, d, t) ==
    [s \in DOMAIN m |->
        IF Contains(m[s].attached_clients, d)
        THEN [m[s] EXCEPT !.attached_clients = <<>>, !.last_activity = t]
        ELSE m[s]]

\* The ClientMessage::Disconnect arm of handle_client_message: the registry
\* after client id d has been detached from every session that lists it.
DisconnectSessions(m, d, t) ==
    [s \in DOMAIN m |->
        IF Contains(m[s].attached_clients, d)
        THEN detach_client(m[s], d, t) ELSE m[s]]

DisconnectEffect(d) ==
    /\ client_sessions' = Remove(client_sessions, d)
    /\ sessions' = DisconnectSessions(sessions, d, now)
    /\ emptiedAt' =
         [s \in SessionIds |->
            IF /\ s \in DOMAIN sessions
               /\ Contains(sessions[s].attached_clients, d)
               /\ Orphaned(DisconnectSessions(sessions, d, now), s)
            THEN now ELSE emptiedAt[s]]

\* ClientMessage::Disconnect { client_id: d } received as a frame.
Disconnect(k, d) ==
    /\ conns[k] = "open"
    /\ DisconnectEffect(d)
    /\ last' = Frame("Disconnect", k, "none", d, "None")
    /\ UNCHANGED <<conns, now, via>>
    /\ UNCHANGED io

\* handle_client_connection: the read fails (EOF, I/O or protocol error), the
\* inbound loop breaks and the cleanup handles Disconnect { client_id: k }.
Close(k) ==
    /\ conns[k] = "open"
    /\ DisconnectEffect(k)
    /\ conns' = [conns EXCEPT ![k] = "closed"]
    /\ last' = Frame("Close", k, "none", k, "None")
    /\ UNCHANGED <<now, via>>
    /\ UNCHANGED io

\* The cleanup task of PtyDaemon::run: cleanup_orphaned_sessions.  Its tick
\* may fall on any instant of the clock.
SweepStep ==
    /\ sessions' = cleanup_orphaned_sessions(sessions, now)
    /\ last' = Frame("Sweep", "none", "none", "none", "None")
    /\ UNCHANGED <<client_sessions, conns, now, emptiedAt, via>>

Sweep == SweepStep /\ UNCHANGED io

\* The clock advances: by one tick, or by the orphan timeout.
Advance(d) ==
    /\ \/ /\ d = 1
          /\ now % (orphan_timeout_seconds * TicksPerSec) < MaxFrac
       \/ /\ d = orphan_timeout_seconds * TicksPerSec
          /\ now < orphan_timeout_seconds * TicksPerSec
    /\ now' = now + d
    /\ UNCHANGED <<sessions, client_sessions, conns, last, emptiedAt, via>>
    /\ UNCHANGED io

\* ClientMessage::SendInput { session_id: s, data: d }
SendInputStep(k, s, d) ==
    /\ conns[k] = "open"
    /\ LET r == send_input_to_session(sessions, s, d, now)
       IN /\ sessions' = r.sessions
          /\ last' = Frame("SendInput", k, s, "none", Reply(r, "None"))
    /\ UNCHANGED <<client_sessions, conns, now, emptiedAt, via>>

SendInput(k, s, d) ==
    /\ s \in DOMAIN sessions => Len(sessions[s].input) < MaxQueue
    /\ SendInputStep(k, s, d)
    /\ UNCHANGED io

RawBytesToFirstSession(k, d) ==
    /\ conns[k] = "open"
    /\ LET s == IF k \in DOMAIN client_sessions THEN client_sessions[k]
                ELSE "s1"
           r == send_input_to_session(sessions, s, d, now)
       IN /\ sessions' = r.sessions
          /\ last' = Frame("RawBytes", k, s, "none", "None")
    /\ UNCHANGED <<client_sessions, conns, now, emptiedAt, via>>

\* handle_client_connection, ProtocolMessage::Bytes: routed through the
\* connection's own binding; without one the frame is dropped, and an error
\* of send_input_to_session is only logged.
RawBytesStep(k, d) ==
    /\ conns[k] = "open"
    /\ IF k \in DOMAIN client_sessions
       THEN LET s == client_sessions[k]
                r == send_input_to_session(sessions, s, d, now)
            IN /\ sessions' = r.sessions
               /\ last' = Frame("RawBytes", k, s, "none", "None")
       ELSE /\ sessions' = sessions
            /\ last' = Frame("RawBytes", k, "none", "none", "None")
    /\ UNCHANGED <<client_sessions, conns, now, emptiedAt, via>>

RawBytes(k, d) ==
    /\ (k \in DOMAIN client_sessions /\ client_sessions[k] \in DOMAIN sessions)
         => Len(sessions[client_sessions[k]].input) < MaxQueue
    /\ RawBytesStep(k, d)
    /\ UNCHANGED io

\* ClientMessage::ReadOutput { session_id: s }
ReadOutputStep(k, s) ==
    /\ conns[k] = "open"
    /\ LET r == read_output_from_session(sessions, s, now)
       IN /\ sessions' = r.sessions
          /\ last' = Frame("ReadOutput", k, s, "none",
                IF r.ok /\ r.data = <<>> THEN "None"
                ELSE Reply(r, "SessionOutput"))
    /\ UNCHANGED <<client_sessions, conns, now, emptiedAt, via>>

ReadOutput(k, s) == ReadOutputStep(k, s) /\ UNCHANGED io

\* ClientMessage::ResizeSession { session_id: s, .. }
ResizeSession(k, s, pty_ok) ==
    /\ conns[k] = "open"
    /\ LET r == resize_session(sessions, s, pty_ok)
       IN /\ sessions' = r.sessions
          /\ last' = Frame("ResizeSession", k, s, "none", Reply(r, "None"))
    /\ UNCHANGED <<client_sessions, conns, now, emptiedAt, via>>
    /\ UNCHANGED io

\* ClientMessage::ListSessions
ListSessions(k) ==
    /\ conns[k] = "open"
    /\ last' = Frame("ListSessions", k, "none", "none", "SessionList")
    /\ UNCHANGED <<sessions, client_sessions, conns, now, emptiedAt, via>>
    /\ UNCHANGED io

\* The input task of initialize_pty: takes the next chunk off the input
\* channel and writes it to the PTY.
WriterStep(s) ==
    /\ s \in DOMAIN sessions
    /\ sessions[s].input # <<>>
    /\ sessions' = [sessions EXCEPT ![s].input = Tail(@)]
    /\ UNCHANGED <<client_sessions, conns, now, last, emptiedAt, via>>

WriterTask(s) == WriterStep(s) /\ UNCHANGED io

\* The output task of initialize_pty: a non-empty read of the PTY is sent on
\* the output channel.
ReaderStep(s, d) ==
    /\ s \in DOMAIN sessions
    /\ sessions[s].reader = "live"
    /\ sessions' = [sessions EXCEPT ![s].output = Append(@, d)]
    /\ UNCHANGED <<client_sessions, conns, now, last, emptiedAt, via>>

\* The channels are unbounded; the registry specifications keep at most
\* MaxQueue chunks in each.
ReaderTask(s, d) ==
    /\ s \in DOMAIN sessions => Len(sessions[s].output) < MaxQueue
    /\ ReaderStep(s, d)
    /\ UNCHANGED io

\* The control messages of connections K naming sessions S and clients C.
Control(K, S, C) ==
    \/ \E k \in K : Accept(k)
    \/ \E k \in K, c \in C : RegisterClient(k, c)
    \/ \E k \in K, s \in S, ok \in BOOLEAN : CreateSession(k, s, ok)
    \/ \E k \in K, s \in S, c \in C : AttachToSession(k, s, c)
    \/ \E k \in K, s \in S, c \in C : DetachFromSession(k, s, c)
    \/ \E k \in K, s \in S : TerminateSession(k, s)
    \/ \E k \in K, c \in C : Disconnect(k, c)
    \/ \E k \in K : Close(k)

\* The shell of session s exits.  Nothing in the daemon waits for the child:
\* the exit shows only as EOF or an error on the next read of the PTY.
ChildExit(s) ==
    /\ s \in DOMAIN sessions
    /\ sessions[s].child = "running"
    /\ sessions' = [sessions EXCEPT ![s].child = "exited"]
    /\ UNCHANGED <<client_sessions, conns, now, last, emptiedAt, via>>
    /\ UNCHANGED io

\* The output task of session s reads EOF (Ok(0)) or an error from the PTY
\* whose child has exited and leaves its loop; the registry is not told.
ReaderStops(s) ==
    /\ s \in DOMAIN sessions
    /\ sessions[s].child = "exited"
    /\ sessions[s].reader = "live"
    /\ sessions' = [sessions EXCEPT ![s].reader = "stopped"]
    /\ UNCHANGED <<client_sessions, conns, now, last, emptiedAt, via>>
    /\ UNCHANGED io

\* The data path of connections K and of the workers of sessions S.
Data(K, S) ==
    \/ \E k \in K, s \in S, d \in Chunks : SendInput(k, s, d)
    \/ \E k \in K, d \in Chunks : RawBytes(k, d)
    \/ \E k \in K, s \in S : ReadOutput(k, s)
    \/ \E k \in K, s \in S, ok \in BOOLEAN : ResizeSession(k, s, ok)
    \/ \E k \in K : ListSessions(k)
    \/ \E s \in S : WriterTask(s)
    \/ \E s \in S, d \in Chunks : ReaderTask(s, d)

Clock == \E d \in {1, orphan_timeout_seconds * TicksPerSec} : Advance(d)

(***************************************************************************)
(* The data path with its chunks numbered.  A chunk is the number of its   *)
(* place in the order send_input accepted it for the session, and pty      *)
(* records what the input task wrote to the PTY master.                    *)
(***************************************************************************)
\* ClientMessage::SendInput carrying the next chunk for s.
NumberedSendInput(k, s) ==
    /\ pty[s].accepted < MaxChunks
    /\ SendInputStep(k, s, pty[s].accepted + 1)
    /\ pty' = IF s \in DOMAIN sessions
              THEN [pty EXCEPT ![s].accepted = @ + 1]
              ELSE pty
    /\ UNCHANGED <<peer, wire, mutex>>

\* A raw-bytes frame on connection k carrying the next chunk for the session
\* k is bound to.
NumberedRawBytes(k) ==
    /\ k \in DOMAIN client_sessions
    /\ LET s == client_sessions[k]
       IN /\ pty[s].accepted < MaxChunks
          /\ RawBytesStep(k, pty[s].accepted + 1)
          /\ pty' = IF s \in DOMAIN sessions
                    THEN [pty EXCEPT ![s].accepted = @ + 1]
                    ELSE pty
    /\ UNCHANGED <<peer, wire, mutex>>

\* One turn of the input task: the chunk received from the channel is written
\* to the PTY master; a write to a PTY whose shell has exited fails, the
\* chunk is dropped and the loop goes on (only a JoinError breaks it).
PtyWrite(s) ==
    /\ WriterStep(s)
    /\ pty' = IF sessions[s].child = "running"
              THEN [pty EXCEPT ![s].written = Append(@, Head(sessions[s].input))]
              ELSE pty
    /\ UNCHANGED <<peer, wire, mutex>>

\* One turn of the output task: the next chunk read from the PTY is sent on
\* the output channel.
PtyRead(s) ==
    /\ pty[s].produced < MaxChunks
    /\ ReaderStep(s, pty[s].produced + 1)
    /\ pty' = [pty EXCEPT ![s].produced = @ + 1]
    /\ UNCHANGED <<peer, wire, mutex>>

\* output_push_task of connection k, first lock: it looks up the binding of
\* its connection id (with none it sleeps and looks again).
PusherPollStep(k) ==
    /\ conns[k] = "open"
    /\ peer[k].push.pc = "poll"
    /\ k \in DOMAIN client_sessions
    /\ peer' = [peer EXCEPT ![k].push =
                    [pc |-> "read", sid |-> client_sessions[k], data |-> <<>>]]
    /\ UNCHANGED <<sessions, client_sessions, conns, now, last, emptiedAt,
                   via, pty, wire>>

PusherPoll(k) == PusherPollStep(k) /\ UNCHANGED mutex

\* output_push_task, second lock: read_output_from_session(..).ok().flatten()
\* on the session it found; with no chunk it sleeps and starts over.
PusherReadStep(k) ==
    /\ conns[k] = "open"
    /\ peer[k].push.pc = "read"
    /\ LET r == read_output_from_session(sessions, peer[k].push.sid, now)
       IN /\ sessions' = r.sessions
          /\ peer' = [peer EXCEPT ![k].push =
                IF r.ok /\ r.data # <<>>
                THEN [pc |-> "write", sid |-> peer[k].push.sid,
                      data |-> r.data]
                ELSE [pc |-> "poll", sid |-> "none", data |-> <<>>]]
    /\ UNCHANGED <<client_sessions, conns, now, last, emptiedAt, via, pty,
                   wire>>

PusherRead(k) == PusherReadStep(k) /\ UNCHANGED mutex

\* output_push_task, with the daemon unlocked: it takes the write half of the
\* socket and writes the chunk as a raw-bytes frame.
PusherWrite(k) ==
    /\ conns[k] = "open"
    /\ peer[k].push.pc = "write"
    /\ peer' = [peer EXCEPT
            ![k].rcvd = Append(@, [via |-> "push", sid |-> peer[k].push.sid,
                                   chunk |-> peer[k].push.data[1]]),
            ![k].push = [pc |-> "poll", sid |-> "none", data |-> <<>>]]
    /\ UNCHANGED <<sessions, client_sessions, conns, now, last, emptiedAt,
                   via, pty, wire, mutex>>

\* The dispatcher of k is at the top of its loop: no response is waiting for
\* the write half of the socket.
Idle(k) == peer[k].pending = <<>>

\* ClientMessage::ReadOutput handled under the daemon lock; a SessionOutput
\* response is written afterwards, with the daemon unlocked.
ReadOutputRequestStep(k, s) ==
    /\ Idle(k)
    /\ ReadOutputStep(k, s)
    /\ LET r == read_output_from_session(sessions, s, now)
       IN peer' = [peer EXCEPT ![k].pending =
                IF r.ok /\ r.data # <<>>
                THEN <<[via |-> "reply", sid |-> s, chunk |-> r.data[1]]>>
                ELSE <<>>]
    /\ UNCHANGED <<pty, wire>>

ReadOutputRequest(k, s) == ReadOutputRequestStep(k, s) /\ UNCHANGED mutex

\* The dispatcher takes the write half of the socket and writes the response.
WriteResponse(k) ==
    /\ conns[k] = "open"
    /\ ~Idle(k)
    /\ peer' = [peer EXCEPT ![k].rcvd = Append(@, peer[k].pending[1]),
                            ![k].pending = <<>>]
    /\ UNCHANGED <<sessions, client_sessions, conns, now, last, emptiedAt,
                   via, pty, wire, mutex>>

\* ClientMessage::RegisterAndCreateSession as the next frame of k.
CreateSessionFrame(k, s) == Idle(k) /\ CreateSession(k, s, TRUE)

(***************************************************************************)
(* The write half of the socket, write by write.  write_all hands a frame  *)
(* to the socket in as many writes as the socket takes; the model cuts a   *)
(* frame into its length prefix, its tag and its payload.  peer[k].wlock   *)
(* is the holder of the mutex around the write half, wpos the number of    *)
(* parts the holder has written, sent the parts on the socket in order.    *)
(***************************************************************************)
FrameParts == <<"prefix", "tag", "payload">>

\* Task w takes the mutex of the write half of k.
TakeSocketAnyway(k, w) ==
    /\ peer[k].wlock # w
    /\ peer' = [peer EXCEPT ![k].wlock = w, ![k].wpos = 0]

TakeSocket(k, w) ==
    /\ peer[k].wlock = "free"
    /\ peer' = [peer EXCEPT ![k].wlock = w, ![k].wpos = 0]

\* output_push_task: write_stream_for_output.lock().await returns.
PusherTakesSocket(k) ==
    /\ conns[k] = "open"
    /\ peer[k].push.pc = "write"
    /\ TakeSocket(k, "push")
    /\ UNCHANGED <<sessions, client_sessions, conns, now, last, emptiedAt,
                   via, pty, wire, mutex>>

\* The message loop: write_stream.lock().await returns.
DispatcherTakesSocket(k) ==
    /\ conns[k] = "open"
    /\ ~Idle(k)
    /\ TakeSocket(k, "reply")
    /\ UNCHANGED <<sessions, client_sessions, conns, now, last, emptiedAt,
                   via, pty, wire, mutex>>

\* The socket of k after the holder of its mutex has written the next part
\* of frame f; with the last part the frame is whole, the guard is dropped.
WritePart(k, f) ==
    LET n == peer[k].wpos + 1
        whole == n = Len(FrameParts)
    IN [peer[k] EXCEPT
            !.sent = Append(@, [frame |-> f, part |-> FrameParts[n]]),
            !.wpos = IF whole THEN 0 ELSE n,
            !.wlock = IF whole THEN "free" ELSE @,
            !.rcvd = IF whole THEN Append(@, f) ELSE @]

\* output_push_task inside stream.write_all(&response_bytes).
PusherWritesPart(k) ==
    /\ conns[k] = "open"
    /\ peer[k].push.pc = "write"
    /\ peer[k].wlock = "push"
    /\ LET f == [via |-> "push", sid |-> peer[k].push.sid,
                 chunk |-> peer[k].push.data[1]]
           p == WritePart(k, f)
       IN peer' = [peer EXCEPT ![k] =
               IF p.wlock = "free"
               THEN [p EXCEPT !.push =
                        [pc |-> "poll", sid |-> "none", data |-> <<>>]]
               ELSE p]
    /\ UNCHANGED <<sessions, client_sessions, conns, now, last, emptiedAt,
                   via, pty, wire, mutex>>

\* The message loop inside stream.write_all(&response_bytes).
DispatcherWritesPart(k) ==
    /\ conns[k] = "open"
    /\ ~Idle(k)
    /\ peer[k].wlock = "reply"
    /\ LET p == WritePart(k, peer[k].pending[1])
       IN peer' = [peer EXCEPT ![k] =
               IF p.wlock = "free" THEN [p EXCEPT !.pending = <<>>] ELSE p]
    /\ UNCHANGED <<sessions, client_sessions, conns, now, last, emptiedAt,
                   via, pty, wire, mutex>>

(***************************************************************************)
(* The read half of a connection: frames arrive and the message loop reads *)
(* and dispatches them.                                                    *)
(***************************************************************************)
\* The client encodes message m and sends the frame.
ClientSendsMessage(k, m, encoder) ==
    /\ conns[k] = "open"
    /\ wire[k].state = "reading"
    /\ wire[k].phase # "sent"
    /\ encoder = "to_protocol_bytes" => m.type = "Bytes"
    /\ wire' = [wire EXCEPT ![k] =
            [phase |-> "sent",
             frame |-> IF encoder = "to_bytes" THEN to_bytes(m)
                       ELSE to_protocol_bytes(m.data),
             origin |-> m, result |-> NoResult, state |-> "reading"]]
    /\ UNCHANGED <<sessions, client_sessions, conns, now, last, emptiedAt,
                   via, pty, peer, mutex>>

\* The client sends four bytes and a body of its own making; when the body
\* is shorter than the prefix says, the client has closed its end after it.
ClientSendsBytes(k, prefix, body) ==
    /\ conns[k] = "open"
    /\ wire[k].state = "reading"
    /\ wire[k].phase # "sent"
    /\ wire' = [wire EXCEPT ![k] =
            [phase |-> "sent", frame |-> [prefix |-> prefix, body |-> body],
             origin |-> NoMsg, result |-> NoResult, state |-> "reading"]]
    /\ UNCHANGED <<sessions, client_sessions, conns, now, last, emptiedAt,
                   via, pty, peer, mutex>>

\* One turn of the message loop of handle_client_connection: read_from_stream
\* and the arm its result selects.  An error leaves the loop.  (Raw bytes are
\* taken here once the input task has written the chunk before them.)
ReadFrame(k) ==
    /\ conns[k] = "open"
    /\ wire[k].state = "reading"
    /\ wire[k].phase = "sent"
    /\ LET r == read_from_stream(wire[k].frame)
       IN /\ wire' = [wire EXCEPT ![k].phase = "read", ![k].result = r,
                         ![k].state = IF r.ok THEN "reading" ELSE "broken"]
          /\ IF r.ok /\ r.msg.type = "Json"
                /\ r.msg.json.variant = "RegisterAndCreateSession"
             THEN CreateSessionStep(k, r.msg.json.session_id, TRUE)
             ELSE IF r.ok /\ r.msg.type = "Bytes"
             THEN /\ (k \in DOMAIN client_sessions
                        /\ client_sessions[k] \in DOMAIN sessions)
                     => sessions[client_sessions[k]].input = <<>>
                  /\ RawBytesStep(k, r.msg.data)
             ELSE UNCHANGED <<sessions, client_sessions, conns, now, last,
                              emptiedAt, via>>
    /\ UNCHANGED <<pty, peer, mutex>>

(***************************************************************************)
(* The daemon mutex and the blocking calls on the PTY, step by step: a     *)
(* task waits for the mutex, runs its registry operation and gives the     *)
(* mutex back; a worker enters a call on the PTY and later returns from    *)
(* it.                                                                     *)
(***************************************************************************)
\* The tasks that take the daemon mutex: the message loop of each connection
\* and the cleanup task.
Tasks == ConnIds \cup {"sweep"}

\* A worker of session s is inside write_all/flush or read on the PTY.
InPtyCall(s) == pty[s].writing # <<>> \/ pty[s].reading

LockWhenPtyIdle(t) ==
    /\ mutex = "free"
    /\ t \in ConnIds => conns[t] = "open"
    /\ \A s \in SessionIds : ~InPtyCall(s)
    /\ mutex' = t
    /\ UNCHANGED <<sessions, client_sessions, conns, now, last, emptiedAt,
                   via, pty, peer, wire>>

\* daemon.lock().await returns in task t.
Lock(t) ==
    /\ mutex = "free"
    /\ t \in ConnIds => conns[t] = "open"
    /\ mutex' = t
    /\ UNCHANGED <<sessions, client_sessions, conns, now, last, emptiedAt,
                   via, pty, peer, wire>>

\* RegisterAndCreateSession handled by the holder of the mutex, which is
\* given back when handle_client_message returns.
LockedCreateSession(k, s) ==
    /\ mutex = k
    /\ CreateSessionStep(k, s, TRUE)
    /\ mutex' = "free"
    /\ UNCHANGED <<pty, peer, wire>>

\* SendInput carrying the next chunk for s, handled by the holder.
LockedSendInput(k, s) ==
    /\ mutex = k
    /\ pty[s].accepted < MaxChunks
    /\ SendInputStep(k, s, pty[s].accepted + 1)
    /\ pty' = IF s \in DOMAIN sessions
              THEN [pty EXCEPT ![s].accepted = @ + 1]
              ELSE pty
    /\ mutex' = "free"
    /\ UNCHANGED <<peer, wire>>

\* ReadOutput handled by the holder.
LockedReadOutput(k, s) ==
    /\ mutex = k
    /\ ReadOutputStep(k, s)
    /\ mutex' = "free"
    /\ UNCHANGED <<pty, peer, wire>>

\* The cleanup task, holding the mutex, sweeps and gives the mutex back.
LockedSweep ==
    /\ mutex = "sweep"
    /\ SweepStep
    /\ mutex' = "free"
    /\ UNCHANGED <<pty, peer, wire>>

\* The input task: input_rx.recv() returns a chunk and the task enters the
\* blocking write_all and flush on the PTY writer.
WriterCalls(s) ==
    /\ pty[s].writing = <<>>
    /\ WriterStep(s)
    /\ pty' = [pty EXCEPT ![s].writing = <<Head(sessions[s].input)>>]
    /\ UNCHANGED <<peer, wire, mutex>>

\* write_all and flush return: the chunk is on the PTY, unless the shell has
\* exited and the write failed.
WriterReturns(s) ==
    /\ pty[s].writing # <<>>
    /\ pty' = [pty EXCEPT
            ![s].writing = <<>>,
            ![s].written =
                IF s \in DOMAIN sessions /\ sessions[s].child = "exited"
                THEN @ ELSE Append(@, pty[s].writing[1])]
    /\ UNCHANGED <<sessions, client_sessions, conns, now, last, emptiedAt,
                   via, peer, wire, mutex>>

\* The output task enters the blocking read on the PTY reader.
ReaderCalls(s) ==
    /\ s \in DOMAIN sessions
    /\ sessions[s].reader = "live"
    /\ ~pty[s].reading
    /\ pty[s].produced < MaxChunks
    /\ pty' = [pty EXCEPT ![s].reading = TRUE]
    /\ UNCHANGED <<sessions, client_sessions, conns, now, last, emptiedAt,
                   via, peer, wire, mutex>>

\* The read returns the next chunk, which is sent on the output channel.
ReaderReturns(s) ==
    /\ pty[s].reading
    /\ ReaderStep(s, pty[s].produced + 1)
    /\ pty' = [pty EXCEPT ![s].reading = FALSE, ![s].produced = @ + 1]
    /\ UNCHANGED <<peer, wire, mutex>>

(***************************************************************************)
(* The two kinds of mutex together: the daemon mutex, taken by the message *)
(* loops, the pushers and the cleanup task, and the mutex around the write *)
(* half of each connection, taken by that connection's message loop and    *)
(* pusher.  peer[k].client says whether the client still reads its socket: *)
(* once it has stopped, a write_all to it no longer returns.               *)
(***************************************************************************)
\* The name under which the pusher of connection k holds the daemon mutex.
Pusher(k) == "pusher:" \o k

KeepLocked == mutex' = mutex

\* The guard of the daemon mutex is dropped at the end of the block that
\* took it.
Unlock == mutex' = "free"

\* The message loop of k has read a frame: daemon.lock().await returns.
DispatcherLocks(k) == Idle(k) /\ Lock(k)

\* The cleanup task's tick: daemon_for_cleanup.lock().await returns.
SweepLocks == Lock("sweep")

\* output_push_task: daemon_for_output.lock().await returns, for the lookup
\* of the binding or for the read of the output channel.
PusherLocks(k) ==
    /\ conns[k] = "open"
    /\ peer[k].push.pc \in {"poll", "read"}
    /\ mutex = "free"
    /\ mutex' = Pusher(k)
    /\ UNCHANGED <<sessions, client_sessions, conns, now, last, emptiedAt,
                   via, pty, peer, wire>>

\* output_push_task, first block: the binding is looked up; with none the
\* task sleeps and comes back.
PusherLooksUp(k) ==
    /\ mutex = Pusher(k)
    /\ peer[k].push.pc = "poll"
    /\ IF k \in DOMAIN client_sessions
       THEN PusherPollStep(k)
       ELSE UNCHANGED <<sessions, client_sessions, conns, now, last,
                        emptiedAt, via, pty, peer, wire>>
    /\ Unlock

\* output_push_task, second block: read_output_from_session.
PusherDequeues(k) ==
    /\ mutex = Pusher(k)
    /\ PusherReadStep(k)
    /\ Unlock

\* ClientMessage::ReadOutput handled by the message loop of k inside its
\* block; the response is written after the block.
HandleReadOutput(k, s) ==
    /\ mutex = k
    /\ ReadOutputRequestStep(k, s)
    /\ Unlock

\* The client of k stops reading its socket.
ClientStopsReading(k) ==
    /\ conns[k] = "open"
    /\ peer[k].client = "reading"
    /\ peer' = [peer EXCEPT ![k].client = "stalled"]
    /\ UNCHANGED <<sessions, client_sessions, conns, now, last, emptiedAt,
                   via, pty, wire, mutex>>

\* write_all of the pusher, and of the message loop, makes progress while
\* the client reads.
PusherSends(k) == peer[k].client = "reading" /\ PusherWritesPart(k)

DispatcherSends(k) == peer[k].client = "reading" /\ DispatcherWritesPart(k)

(***************************************************************************)
(* The two tasks and the shell of a session, which outlive its entry in    *)
(* the registry: pty[s].shell is the child spawned on the slave side,      *)
(* pty[s].input_task and pty[s].output_task the tasks initialize_pty       *)
(* spawns.  The input channel's sender and the output channel's receiver   *)
(* are fields of the PtySession, so both are dropped with the entry.       *)
(***************************************************************************)
\* RegisterAndCreateSession for an id that has had no session yet:
\* initialize_pty spawns the shell and the two tasks.
SpawnSession(k, s) ==
    /\ pty[s].shell = "none"
    /\ CreateSessionStep(k, s, TRUE)
    /\ pty' = [pty EXCEPT ![s].shell = "running",
                          ![s].input_task = "running",
                          ![s].output_task = "running"]
    /\ UNCHANGED <<peer, wire, mutex>>

\* The shell exits, in or out of the registry.  Nothing in the daemon kills
\* or waits for the child, and the output task's clone of the reader keeps
\* the master side open after the PtySession is dropped.
ShellExits(s) ==
    /\ pty[s].shell = "running"
    /\ pty' = [pty EXCEPT ![s].shell = "exited"]
    /\ sessions' = IF s \in DOMAIN sessions
                   THEN [sessions EXCEPT ![s].child = "exited"]
                   ELSE sessions
    /\ UNCHANGED <<client_sessions, conns, now, last, emptiedAt, via,
                   peer, wire, mutex>>

\* The input task after the PtySession was dropped: input_rx.recv() hands
\* out what is left in the channel and then None, and the while-let ends.
InputTaskEnds(s) ==
    /\ pty[s].input_task = "running"
    /\ s \notin DOMAIN sessions
    /\ pty' = [pty EXCEPT ![s].input_task = "done"]
    /\ UNCHANGED <<sessions, client_sessions, conns, now, last, emptiedAt,
                   via, peer, wire, mutex>>

\* The output task's read returns a chunk while the shell runs: it is sent
\* on the output channel, or, with the receiver dropped, send fails and the
\* loop breaks.
OutputTaskReads(s) ==
    /\ pty[s].output_task = "running"
    /\ pty[s].shell = "running"
    /\ pty[s].produced < MaxChunks
    /\ IF s \in DOMAIN sessions
       THEN /\ ReaderStep(s, pty[s].produced + 1)
            /\ pty' = [pty EXCEPT ![s].produced = @ + 1]
       ELSE /\ pty' = [pty EXCEPT ![s].produced = @ + 1,
                                  ![s].output_task = "done"]
            /\ UNCHANGED <<sessions, client_sessions, conns, now, last,
                           emptiedAt, via>>
    /\ UNCHANGED <<peer, wire, mutex>>

\* The output task's read returns Ok(0) or an error once the shell has
\* exited: the loop breaks.
OutputTaskEof(s) ==
    /\ pty[s].output_task = "running"
    /\ pty[s].shell = "exited"
    /\ pty' = [pty EXCEPT ![s].output_task = "done"]
    /\ sessions' = IF s \in DOMAIN sessions
                   THEN [sessions EXCEPT ![s].reader = "stopped"]
                   ELSE sessions
    /\ UNCHANGED <<client_sessions, conns, now, last, emptiedAt, via,
                   peer, wire, mutex>>

\* The registry under control messages, the clock and the sweep.
Next ==
    \/ Control(ActiveConns, SessionIds, ActiveClients)
    \/ Sweep
    \/ Clock

Spec == Init /\ [][Next]_vars

\* Control messages and the data path, at one instant.
IoNext ==
    \/ Control(ActiveConns, SessionIds, ActiveClients)
    \/ Data(ActiveConns, SessionIds)

IoSpec == Init /\ [][IoNext]_vars

\* Everything, for one session id.  The cleanup task loops for ever on its
\* interval and takes the daemon mutex, which is granted in FIFO order.
SweepNext ==
    \/ Control(ActiveConns, OneSession, ActiveClients)
    \/ Data(ActiveConns, OneSession)
    \/ Sweep
    \/ Clock

SweepSpec == Init /\ [][SweepNext]_vars /\ WF_vars(Sweep)

\* One session id with its shell: the shell may exit at any time.  The
\* cleanup task and the output task are tokio tasks that keep running.
Child(S) ==
    \/ \E s \in S : ChildExit(s)
    \/ \E s \in S : ReaderStops(s)

ChildNext ==
    \/ Control(ActiveConns, OneSession, ActiveClients)
    \/ Data(ActiveConns, OneSession)
    \/ Child(OneSession)
    \/ Sweep
    \/ Clock

ChildSpec ==
    /\ Init
    /\ [][ChildNext]_vars
    /\ WF_vars(Sweep)
    /\ \A s \in OneSession : WF_vars(ReaderStops(s))

\* The input path: both connections send numbered chunks, as SendInput
\* messages and as raw bytes, to one session, whose shell may exit.
InNext ==
    \/ \E k \in ConnIds : Accept(k)
    \/ \E k \in ConnIds, s \in OneSession : CreateSession(k, s, TRUE)
    \/ \E k \in ConnIds, s \in OneSession : AttachToSession(k, s, k)
    \/ \E k \in ConnIds, s \in OneSession : NumberedSendInput(k, s)
    \/ \E k \in ConnIds : NumberedRawBytes(k)
    \/ \E s \in OneSession : PtyWrite(s)
    \/ \E s \in OneSession : ChildExit(s)

InSpec == Init /\ [][InNext]_vars

\* The output path: one connection, its pusher and its ReadOutput requests,
\* and the output task of the session it creates.
OutNext ==
    \/ \E k \in ActiveConns : Accept(k)
    \/ \E k \in ActiveConns, s \in OneSession : CreateSessionFrame(k, s)
    \/ \E k \in ActiveConns, s \in OneSession : ReadOutputRequest(k, s)
    \/ \E k \in ActiveConns : WriteResponse(k)
    \/ \E k \in ActiveConns : PusherPoll(k)
    \/ \E k \in ActiveConns : PusherRead(k)
    \/ \E k \in ActiveConns : PusherWrite(k)
    \/ \E s \in OneSession : PtyRead(s)

OutSpec == Init /\ [][OutNext]_vars

\* The output path with its tasks scheduled fairly: the pusher is a tokio
\* task that loops for ever, and the message loop writes a response as soon
\* as it has one.
PushSpec ==
    /\ Init
    /\ [][OutNext]_vars
    /\ \A k \in ActiveConns :
          /\ WF_vars(PusherPoll(k))
          /\ WF_vars(PusherRead(k))
          /\ WF_vars(PusherWrite(k))
          /\ WF_vars(WriteResponse(k))

\* The output path with the writes to the socket taken one by one.
SocketNext ==
    \/ \E k \in ActiveConns : Accept(k)
    \/ \E k \in ActiveConns, s \in OneSession : CreateSessionFrame(k, s)
    \/ \E k \in ActiveConns, s \in OneSession : ReadOutputRequest(k, s)
    \/ \E k \in ActiveConns : PusherPoll(k)
    \/ \E k \in ActiveConns : PusherRead(k)
    \/ \E k \in ActiveConns : PusherTakesSocket(k)
    \/ \E k \in ActiveConns : PusherWritesPart(k)
    \/ \E k \in ActiveConns : DispatcherTakesSocket(k)
    \/ \E k \in ActiveConns : DispatcherWritesPart(k)
    \/ \E s \in OneSession : PtyRead(s)

SocketSpec == Init /\ [][SocketNext]_vars

\* The wire: one connection receives encoded messages and other bytes.
WireNext ==
    \/ \E k \in ActiveConns : Accept(k)
    \/ \E k \in ActiveConns, m \in Messages,
          encoder \in {"to_bytes", "to_protocol_bytes"} :
            ClientSendsMessage(k, m, encoder)
    \/ \E k \in ActiveConns, prefix \in Prefixes, body \in Bodies :
            ClientSendsBytes(k, prefix, body)
    \/ \E k \in ActiveConns : ReadFrame(k)
    \/ \E k \in ActiveConns : Close(k)
    \/ \E s \in OneSession : WriterTask(s)

WireSpec == Init /\ [][WireNext]_vars

\* Frames whose prefix is the length of what follows it.
WholeFrames ==
    {[prefix |-> to_be_bytes(BodyLen([body |-> b])), body |-> b] :
        b \in {x \in Bodies : x # <<>> /\ x[1].rest.n = 64}}

\* ClientMessage::AttachToSession naming the connection's own id, as the next
\* frame the message loop of k reads.
AttachFrame(k, s) == wire[k].state = "reading" /\ AttachToSession(k, s, k)

\* Two connections side by side on one session: either may attach, send
\* frames of any kind and be closed, while the session's workers run.
PairNext ==
    \/ \E k \in ConnIds : Accept(k)
    \/ \E k \in ConnIds, s \in OneSession : AttachFrame(k, s)
    \/ \E k \in ConnIds, f \in WholeFrames :
            ClientSendsBytes(k, f.prefix, f.body)
    \/ \E k \in ConnIds : ReadFrame(k)
    \/ \E k \in ConnIds : Close(k)
    \/ \E s \in OneSession : WriterTask(s)
    \/ \E s \in OneSession, d \in Chunks : ReaderTask(s, d)

PairSpec == Init /\ [][PairNext]_vars

\* Two connections and the cleanup task competing for the mutex while the
\* workers of the one session are in and out of their calls on the PTY.
LockNext ==
    \/ \E k \in ConnIds : Accept(k)
    \/ \E t \in Tasks : Lock(t)
    \/ \E k \in ConnIds, s \in OneSession : LockedCreateSession(k, s)
    \/ \E k \in ConnIds, s \in OneSession : LockedSendInput(k, s)
    \/ \E k \in ConnIds, s \in OneSession : LockedReadOutput(k, s)
    \/ LockedSweep
    \/ \E s \in OneSession : WriterCalls(s)
    \/ \E s \in OneSession : WriterReturns(s)
    \/ \E s \in OneSession : ReaderCalls(s)
    \/ \E s \in OneSession : ReaderReturns(s)

LockSpec == Init /\ [][LockNext]_vars

\* One session from its creation to after its removal, by TerminateSession
\* or by the sweep, with its shell and its two tasks.
EndNext ==
    \/ \E k \in ActiveConns : Accept(k)
    \/ \E k \in ActiveConns, s \in OneSession : SpawnSession(k, s)
    \/ \E k \in ActiveConns, s \in OneSession : NumberedSendInput(k, s)
    \/ \E k \in ActiveConns, s \in OneSession : TerminateSession(k, s)
    \/ \E k \in ActiveConns : Close(k)
    \/ Clock
    \/ Sweep
    \/ \E s \in OneSession : PtyWrite(s)
    \/ \E s \in OneSession : ShellExits(s)
    \/ \E s \in OneSession : InputTaskEnds(s)
    \/ \E s \in OneSession : OutputTaskReads(s)
    \/ \E s \in OneSession : OutputTaskEof(s)

\* The two tasks are tokio tasks and take their steps; the shell owes the
\* daemon neither output nor its exit.
EndSpec ==
    /\ Init
    /\ [][EndNext]_vars
    /\ \A s \in OneSession :
          /\ WF_vars(InputTaskEnds(s))
          /\ WF_vars(OutputTaskEof(s))

\* Routing: two connections that name only their own client id create,
\* attach to, detach from and terminate sessions and send raw bytes.
RouteNext ==
    \/ \E k \in ConnIds : Accept(k)
    \/ \E k \in ConnIds, s \in SessionIds : CreateSession(k, s, TRUE)
    \/ \E k \in ConnIds, s \in SessionIds : AttachToSession(k, s, k)
    \/ \E k \in ConnIds, s \in SessionIds : DetachFromSession(k, s, k)
    \/ \E k \in ConnIds, s \in SessionIds : TerminateSession(k, s)
    \/ \E k \in ConnIds, d \in Chunks : RawBytes(k, d)
    \/ \E s \in SessionIds : WriterTask(s)

RouteSpec == Init /\ [][RouteNext]_vars

\* Two connections whose AttachToSession, DetachFromSession and Disconnect
\* messages carry either connection's client id.
CrossNext ==
    \/ \E k \in ConnIds : Accept(k)
    \/ \E k \in ConnIds, s \in OneSession : CreateSession(k, s, TRUE)
    \/ \E k \in ConnIds, s \in OneSession, c \in ConnIds :
            AttachToSession(k, s, c)
    \/ \E k \in ConnIds, s \in OneSession, c \in ConnIds :
            DetachFromSession(k, s, c)
    \/ \E k \in ConnIds, c \in ConnIds : Disconnect(k, c)

CrossSpec == Init /\ [][CrossNext]_vars

\* The pushers of two connections that attach, detach and end.  The cleanup
\* of handle_client_connection aborts the pusher wherever it is, so after
\* Close the pusher of k takes no further step.
AbortNext ==
    \/ \E k \in ConnIds : Accept(k)
    \/ \E k \in ConnIds, s \in OneSession : CreateSessionFrame(k, s)
    \/ \E k \in ConnIds, s \in OneSession : AttachToSession(k, s, k)
    \/ \E k \in ConnIds, s \in OneSession : DetachFromSession(k, s, k)
    \/ \E k \in ConnIds : PusherPoll(k)
    \/ \E k \in ConnIds : PusherRead(k)
    \/ \E k \in ConnIds : PusherWrite(k)
    \/ \E k \in ConnIds : Close(k)
    \/ \E s \in OneSession : PtyRead(s)

AbortSpec == Init /\ [][AbortNext]_vars

\* ClientMessage::AttachToSession naming the connection's own id, handled
\* when no response is waiting to be written.
AttachRequest(k, s) == Idle(k) /\ AttachToSession(k, s, k)

\* The read of the next frame fails once the response to the last one has
\* been written, and the connection ends.
CloseIdle(k) == Idle(k) /\ Close(k)

\* The response cannot be written because the client has gone: write_all
\* fails, the message loop breaks and the connection ends.
CloseUnanswered(k) == ~Idle(k) /\ Close(k)

\* Fan-out: two connections with their pushers and their ReadOutput
\* requests on one session; either may end at any time.
FanNext ==
    \/ \E k \in ConnIds : Accept(k)
    \/ \E k \in ConnIds, s \in OneSession : CreateSessionFrame(k, s)
    \/ \E k \in ConnIds, s \in OneSession : AttachRequest(k, s)
    \/ \E k \in ConnIds, s \in OneSession : ReadOutputRequest(k, s)
    \/ \E k \in ConnIds : WriteResponse(k)
    \/ \E k \in ConnIds : PusherPoll(k)
    \/ \E k \in ConnIds : PusherRead(k)
    \/ \E k \in ConnIds : PusherWrite(k)
    \/ \E k \in ConnIds : CloseIdle(k)
    \/ \E k \in ConnIds : CloseUnanswered(k)
    \/ \E s \in OneSession : PtyRead(s)

FanSpec == Init /\ [][FanNext]_vars

\* Two connections and the cleanup task on the daemon mutex and on the
\* write halves.  The first connection has its pusher running and a client
\* that may stop reading; the second sends requests and reads the answers.
StallNext ==
    \/ \E k \in ConnIds : Accept(k)
    \/ \E k \in ConnIds : DispatcherLocks(k)
    \/ SweepLocks
    \/ \E k \in ActiveConns : PusherLocks(k)
    \/ \E k \in ConnIds, s \in OneSession : LockedCreateSession(k, s)
    \/ \E k \in ConnIds, s \in OneSession : HandleReadOutput(k, s)
    \/ LockedSweep
    \/ \E k \in ActiveConns : PusherLooksUp(k)
    \/ \E k \in ActiveConns : PusherDequeues(k)
    \/ \E k \in ActiveConns : PusherTakesSocket(k)
    \/ \E k \in ActiveConns : PusherSends(k)
    \/ \E k \in ConnIds : DispatcherTakesSocket(k)
    \/ \E k \in ConnIds : DispatcherSends(k)
    \/ \E k \in ActiveConns : ClientStopsReading(k)
    \/ \E s \in OneSession : PtyRead(s)

StallSpec == Init /\ [][StallNext]_vars

(***************************************************************************)
(* Properties.                                                             *)
(***************************************************************************)
Attached(s) == sessions[s].attached_clients

\* The client ids whose binding is session s.
BoundTo(s) == {c \in DOMAIN client_sessions : client_sessions[c] = s}

Timeout == orphan_timeout_seconds * TicksPerSec

\* C1: after AttachToSession(S, c) has succeeded silently on a connection,
\* that connection's current binding - the entry raw-bytes frames are routed
\* by - is S, whatever the client_id c in the message.
C1_AttachBindsConnection ==
    (last.op = "AttachToSession" /\ last.reply = "None")
        => /\ last.conn \in DOMAIN client_sessions
           /\ client_sessions[last.conn] = last.sid

\* C2: a session that a detach or a connection close left without attached
\* clients is still in the registry, and an attach to it by any client
\* succeeds, as long as fewer than orphan_timeout seconds have passed since
\* and it was not terminated.
C2_DetachKeepsSession ==
    \A s \in SessionIds :
        (emptiedAt[s] # NoTime /\ now - emptiedAt[s] < Timeout)
            => /\ s \in DOMAIN sessions
               /\ \A c \in ClientIds :
                    attach_client_to_session(sessions, s, c, now).ok

\* A sweep ran after the detach, within the timeout, and the session is
\* still there.
C2_Witness ==
    \E s \in SessionIds :
        /\ emptiedAt[s] # NoTime
        /\ now - emptiedAt[s] > 0
        /\ now - emptiedAt[s] < Timeout
        /\ last.op = "Sweep"
        /\ s \in DOMAIN sessions
        /\ is_orphaned(sessions[s])

\* C3 as stated: a sweep removes every orphaned session whose last_activity
\* lies more than orphan_timeout before the sweep, by any amount.
C3_SweepRemovesAnyExcess ==
    [][Sweep =>
        \A s \in DOMAIN sessions :
            (is_orphaned(sessions[s])
                /\ now - sessions[s].last_activity > Timeout)
            => s \notin DOMAIN sessions']_vars

\* A session is due for removal.
Expired(s) ==
    s \in DOMAIN sessions
        /\ should_cleanup(sessions[s], orphan_timeout_seconds, now)

\* C3 amended: a sweep removes every orphaned session for which the whole
\* seconds elapsed since last_activity exceed orphan_timeout (301 s or more),
\* and such a session is eventually removed or sees activity again.
C3_SweepRemovesWholeSeconds ==
    /\ [][Sweep =>
            \A s \in DOMAIN sessions :
                (is_orphaned(sessions[s])
                    /\ now - sessions[s].last_activity
                          >= (orphan_timeout_seconds + 1) * TicksPerSec)
                => s \notin DOMAIN sessions']_vars
    /\ \A s \in OneSession : Expired(s) ~> ~Expired(s)

\* A sweep has just removed a session (the clock is past the timeout, and
\* the last step was the sweep).
C3_Witness ==
    /\ last.op = "Sweep"
    /\ now >= (orphan_timeout_seconds + 1) * TicksPerSec
    /\ sessions = <<>>
    /\ \E s \in OneSession : emptiedAt[s] # NoTime

\* C4: a sweep removes no session that has an attached client and no
\* orphaned session whose last_activity is within orphan_timeout seconds of
\* the sweep, and leaves every session it keeps as it was.
C4_SweepKeeps ==
    [][Sweep =>
        /\ \A s \in DOMAIN sessions :
              (~is_orphaned(sessions[s])
                  \/ now - sessions[s].last_activity <= Timeout)
              => s \in DOMAIN sessions'
        /\ \A s \in DOMAIN sessions' :
              s \in DOMAIN sessions /\ sessions'[s] = sessions[s]]_vars

\* A sweep kept a session with an attached client, queued input and output,
\* and a last_activity older than the timeout.
C4_Witness ==
    /\ last.op = "Sweep"
    /\ \E s \in DOMAIN sessions :
          /\ ~is_orphaned(sessions[s])
          /\ as_secs(now - sessions[s].last_activity) > orphan_timeout_seconds
          /\ sessions[s].input # <<>>
          /\ sessions[s].output # <<>>

\* C5: every client binding refers to a session in the registry.
C5_BindingsReferToSessions ==
    \A c \in DOMAIN client_sessions : client_sessions[c] \in DOMAIN sessions

\* C6: for every session in the registry the number of attached client ids
\* equals the number of bindings whose value is that session.
C6_AttachedMatchesBindings ==
    \A s \in DOMAIN sessions : Len(Attached(s)) = Cardinality(BoundTo(s))

\* C7: once a connection is closed, no client id attached through it (its
\* own id, or a client_id named in its AttachToSession messages) is in any
\* attached list or has a binding.
C7_ClosedLeavesNothing ==
    \A k \in ConnIds :
        conns[k] = "closed" =>
            \A c \in via[k] :
                /\ c \notin DOMAIN client_sessions
                /\ \A s \in DOMAIN sessions : ~Contains(Attached(s), c)

\* C8: CreateSession for an id already in the registry is answered with the
\* already-exists error and leaves the registry (the existing session with
\* its attached list, last_activity and channels; no fresh session record,
\* so no new shell) and every binding as they were.
C8_CreateExisting ==
    [][\A k \in ConnIds, s \in SessionIds, ok \in BOOLEAN :
        (CreateSession(k, s, ok) /\ s \in DOMAIN sessions)
            => /\ sessions' = sessions
               /\ client_sessions' = client_sessions
               /\ last'.reply = "Error:AlreadyExists"]_vars

\* A create was refused for a session that has clients attached and chunks
\* queued both ways, while the requester is not bound to it.
C8_Witness ==
    /\ last.op = "CreateSession"
    /\ last.reply = "Error:AlreadyExists"
    /\ last.sid \in DOMAIN sessions
    /\ ~is_orphaned(sessions[last.sid])
    /\ sessions[last.sid].input # <<>>
    /\ sessions[last.sid].output # <<>>
    /\ last.conn \in DOMAIN client_sessions
    /\ client_sessions[last.conn] # last.sid

Unchanged == sessions' = sessions /\ client_sessions' = client_sessions

\* C9: attach, detach, send_input, resize, terminate and read_output on a
\* session id that is not in the registry are answered with the not-found
\* error and change neither the registry nor any binding.
C9_MissingSession ==
    [][\A k \in ConnIds, s \in SessionIds :
        s \notin DOMAIN sessions =>
            /\ \A c \in ClientIds :
                  (AttachToSession(k, s, c) \/ DetachFromSession(k, s, c))
                      => Unchanged /\ last'.reply = "Error:NotFound"
            /\ \A d \in Chunks :
                  SendInput(k, s, d)
                      => Unchanged /\ last'.reply = "Error:NotFound"
            /\ \A ok \in BOOLEAN :
                  ResizeSession(k, s, ok)
                      => Unchanged /\ last'.reply = "Error:NotFound"
            /\ (TerminateSession(k, s) \/ ReadOutput(k, s))
                  => Unchanged /\ last'.reply = "Error:NotFound"]_vars

\* A detach named a missing session while another session has clients
\* attached and the named client is bound.
C9_Witness ==
    /\ last.op = "DetachFromSession"
    /\ last.reply = "Error:NotFound"
    /\ last.sid \notin DOMAIN sessions
    /\ last.cid \in DOMAIN client_sessions
    /\ \E s \in DOMAIN sessions : ~is_orphaned(sessions[s])

\* C10: no client id occurs twice in an attached list; attaching a client
\* that is already attached leaves the list as it was, and one detach then
\* leaves no occurrence of it.
C10_AttachIdempotent ==
    [][/\ \A s \in DOMAIN sessions', c \in ClientIds :
            Count(sessions'[s].attached_clients, c) <= 1
       /\ \A k \in ConnIds, s \in DOMAIN sessions, c \in ClientIds :
            (AttachToSession(k, s, c) /\ Contains(Attached(s), c))
                => /\ sessions'[s].attached_clients = Attached(s)
                   /\ Count(detach_client(sessions'[s], c, now)
                                .attached_clients, c) = 0]_vars

\* A client that was already attached has been attached again.
C10_Witness ==
    /\ last.op = "AttachToSession"
    /\ last.reply = "None"
    /\ last.present
    /\ Count(Attached(last.sid), last.cid) = 1

\* C11: attaching a client that is already in the attached list of S still
\* sets S.last_activity to the current time, as a first attach does.
C11_AttachAlwaysRefreshes ==
    [][\A k \in ConnIds, s \in DOMAIN sessions, c \in ClientIds :
        AttachToSession(k, s, c) => sessions'[s].last_activity = now]_vars

\* C12: DetachFromSession(S, c) where S exists and c is not attached to S is
\* answered with an error and changes nothing: not the attached list, not
\* last_activity, not the binding of c.
C12_DetachNotAttached ==
    [][\A k \in ConnIds, s \in DOMAIN sessions, c \in ClientIds :
        (DetachFromSession(k, s, c) /\ ~Contains(Attached(s), c))
            => /\ last'.reply # "None"
               /\ Unchanged]_vars

\* C13: a TerminateSession(S) on a session in the registry is answered with
\* SessionTerminated and removes exactly the entry of S; while S is absent no
\* SessionList names it and every attach, detach, send_input, resize, read
\* and terminate on S is answered not-found; S comes back only by a create.
C13_TerminateRemoves ==
    [][\A s \in SessionIds :
        /\ \A k \in ConnIds :
              (TerminateSession(k, s) /\ s \in DOMAIN sessions)
                  => /\ last'.reply = "SessionTerminated"
                     /\ sessions' = Remove(sessions, s)
                     /\ \A i \in list_sessions(sessions') : i.id # s
        /\ s \notin DOMAIN sessions
              => /\ \A i \in list_sessions(sessions) : i.id # s
                 /\ \A k \in ConnIds :
                      (\/ \E c \in ClientIds : \/ AttachToSession(k, s, c)
                                               \/ DetachFromSession(k, s, c)
                       \/ \E d \in Chunks : SendInput(k, s, d)
                       \/ \E ok \in BOOLEAN : ResizeSession(k, s, ok)
                       \/ ReadOutput(k, s)
                       \/ TerminateSession(k, s))
                          => /\ last'.reply = "Error:NotFound"
                             /\ s \notin DOMAIN sessions'
                 /\ s \in DOMAIN sessions'
                      => \E k \in ConnIds, ok \in BOOLEAN :
                            CreateSession(k, s, ok)]_vars

\* A session was terminated while the other session, with a client attached
\* and output queued, stayed.
C13_Witness ==
    /\ last.op = "TerminateSession"
    /\ last.reply = "SessionTerminated"
    /\ last.sid \notin DOMAIN sessions
    /\ \E s \in DOMAIN sessions :
          /\ ~is_orphaned(sessions[s])
          /\ sessions[s].output # <<>>

\* C14: after the shell of a session has exited, the session is eventually
\* removed from the registry, also when a client is attached to it at that
\* time (stated for that case: the session is removed or at least loses its
\* clients).
C14_ChildExitRemoves ==
    \A s \in OneSession :
        (s \in DOMAIN sessions /\ sessions[s].child = "exited"
           /\ ~is_orphaned(sessions[s]))
        ~> (s \notin DOMAIN sessions \/ is_orphaned(sessions[s]))

\* C15: every session in the registry has its writer worker and its reader
\* worker live.
C15_WorkersLive ==
    \A s \in DOMAIN sessions :
        sessions[s].writer = "live" /\ sessions[s].reader = "live"

\* The chunks 1, 2, ..., n in order.
Iota(n) == [i \in 1..n |-> i]

Received(k, s, paths) ==
    SelectSeq(peer[k].rcvd, LAMBDA f : f.sid = s /\ f.via \in paths)

Increasing(frames) ==
    \A i, j \in 1..Len(frames) : i < j => frames[i].chunk < frames[j].chunk

\* C17: the output chunks of a session that a client receives on its
\* socket, pushed frames and SessionOutput replies taken together, are in
\* the order the reader worker enqueued them.
C17_SocketOrder ==
    \A k \in ConnIds, s \in SessionIds :
        Increasing(Received(k, s, {"push", "reply"}))

\* The frame connection k has just read, its length prefix as an unsigned
\* big-endian number, and what the read returned.
HasRead(k) == wire[k].phase = "read"

Length(k) ==
    wire[k].frame.prefix[1] * 16777216 + wire[k].frame.prefix[2] * 65536
        + wire[k].frame.prefix[3] * 256 + wire[k].frame.prefix[4]

\* C18: the prefix is read as an unsigned big-endian length that covers the
\* tag and the payload; a frame of length 1048576 or less is not rejected
\* for its length and, when its bytes are a tag and a payload of that tag,
\* is decoded; a frame of length 1048577 or more is rejected.
C18_LengthLimit ==
    \A k \in ConnIds :
        HasRead(k) =>
            LET f == wire[k].frame
                r == wire[k].result
            IN /\ Length(k) >= 1048577
                    => ~r.ok /\ r.err = "Message too large"
               /\ Length(k) <= 1048576 => r.err # "Message too large"
               /\ (Length(k) <= 1048576 /\ BodyLen(f) = Length(k)
                     /\ f.body # <<>> /\ f.body[1].tag = 1)
                    => /\ r.ok
                       /\ r.msg = [type |-> "Bytes", data |-> f.body[1].rest]
                       /\ r.consumed = 4 + 1 + f.body[1].rest.n
               /\ (Length(k) <= 1048576 /\ BodyLen(f) = Length(k)
                     /\ f.body # <<>> /\ f.body[1].tag = 0
                     /\ f.body[1].rest.text \in Texts \ {<<"junk">>})
                    => /\ r.ok
                       /\ r.msg.type = "Json"
                       /\ to_string(r.msg.json) = f.body[1].rest

\* A frame of length exactly 1 MiB was read and decoded.
C18_Witness ==
    \E k \in ConnIds :
        /\ HasRead(k)
        /\ Length(k) = 1048576
        /\ wire[k].result.ok
        /\ wire[k].result.msg.type = "Bytes"

\* C19: a read that meets a length prefix above 1 MiB has taken 4 bytes from
\* the stream and no more, performs no registry operation, and leaves the
\* message loop: nothing more is read on the connection, which is closed.
C19_OversizeClosesAtPrefix ==
    [][\A k \in ConnIds :
        /\ (ReadFrame(k) /\ Length(k) > 1048576)
              => /\ wire'[k].result.consumed = 4
                 /\ wire'[k].state = "broken"
                 /\ Unchanged
        /\ (wire[k].state = "broken" /\ conns[k] = "open")
              => \/ Close(k)
                 \/ wire'[k] = wire[k] /\ conns'[k] = conns[k] /\ last' = last]_vars

\* An oversize prefix came in front of a well-formed create message for a
\* session that does not exist: the loop was left and no session was made.
C19_Witness ==
    \E k \in ConnIds :
        /\ HasRead(k)
        /\ Length(k) > 1048576
        /\ wire[k].state = "broken"
        /\ wire[k].frame.body # <<>>
        /\ wire[k].frame.body[1].tag = 0
        /\ from_str(wire[k].frame.body[1].rest).ok
        /\ from_str(wire[k].frame.body[1].rest).json.session_id
              \notin DOMAIN sessions

C21_ReencodeIsFrame ==
    \A k \in ConnIds :
        (HasRead(k) /\ wire[k].result.ok
           /\ BodyLen(wire[k].frame) = Length(k))
            => to_bytes(wire[k].result.msg) = wire[k].frame

\* The tag byte of the frame connection k is about to read, or has read.
Tag(k) == wire[k].frame.body[1].tag

\* Connection k with everything that belongs to it: its state, the binding
\* of its id and its read half.
Conn(k) ==
    <<conns[k], wire[k], k \in DOMAIN client_sessions,
      IF k \in DOMAIN client_sessions THEN client_sessions[k] ELSE "none">>

\* C22: reading a frame whose tag is neither 0 nor 1 sends no reply, changes
\* nothing in the registry and leaves the message loop; the connection is
\* then closed, and closing it removes its own client id - from the
\* bindings and from the attached lists - and nothing else: every other
\* connection stays as it is with its binding, and every session keeps its
\* other attached clients and its queued input and output.
C22_BadTagIsolated ==
    [][\A k \in ConnIds :
        /\ (ReadFrame(k) /\ wire[k].frame.body # <<>> /\ Tag(k) \notin {0, 1})
              => /\ wire'[k].state = "broken"
                 /\ last' = last
                 /\ Unchanged
                 /\ conns' = conns
        /\ (wire[k].state = "broken" /\ conns[k] = "open")
              => \/ Conn(k)' = Conn(k)
                 \/ /\ conns'[k] = "closed"
                    /\ last'.reply = "None"
                    /\ client_sessions' = Remove(client_sessions, k)
                    /\ \A j \in ConnIds \ {k} : Conn(j)' = Conn(j)
                    /\ DOMAIN sessions' = DOMAIN sessions
                    /\ \A s \in DOMAIN sessions :
                          /\ sessions'[s].attached_clients
                                = Retain(Attached(s), k)
                          /\ sessions'[s].input = sessions[s].input
                          /\ sessions'[s].output = sessions[s].output]_vars

\* A connection was closed after a frame of tag 254 while the other one is
\* open, attached and bound to the session they shared, which has input and
\* output queued.
C22_Witness ==
    \E k \in ConnIds : \E j \in ConnIds \ {k} :
        /\ conns[k] = "closed"
        /\ wire[k].state = "broken"
        /\ Tag(k) = 254
        /\ wire[k].result.err = "Unknown message type"
        /\ conns[j] = "open"
        /\ j \in DOMAIN client_sessions
        /\ client_sessions[j] \in DOMAIN sessions
        /\ Contains(Attached(client_sessions[j]), j)
        /\ ~Contains(Attached(client_sessions[j]), k)
        /\ wire[j].state = "reading"
        /\ sessions[client_sessions[j]].input # <<>>
        /\ sessions[client_sessions[j]].output # <<>>

\* A reply that is DaemonMessage::Error.
IsError(reply) ==
    reply \notin {"None", "ClientRegistered", "SessionCreated",
                  "SessionOutput", "SessionTerminated", "SessionList"}

\* The frame connection k is about to read is a whole control frame from a
\* client whose text names a variant ClientMessage does not have.
UnknownVariant(k) ==
    /\ wire[k].frame.body # <<>>
    /\ BodyLen(wire[k].frame) = Length(k)
    /\ Tag(k) = MSG_TYPE_JSON
    /\ Len(wire[k].frame.body[1].rest.text) = 4
    /\ wire[k].frame.body[1].rest.text[1] = "json"
    /\ wire[k].frame.body[1].rest.text[2] = "Client"
    /\ wire[k].frame.body[1].rest.text[3] \notin ClientVariants

\* C23: a control frame whose payload names an unknown variant is answered
\* with an Error reply on its connection, and the message loop of that
\* connection goes on reading.
C23_UnknownVariantAnswered ==
    [][\A k \in ConnIds :
        (ReadFrame(k) /\ UnknownVariant(k))
            => /\ wire'[k].state = "reading"
               /\ last'.conn = k
               /\ IsError(last'.reply)]_vars

\* The frame just handled was answered with an Error on connection k, which
\* stays open.
Reported(k) == last'.conn = k /\ IsError(last'.reply) /\ conns'[k] = "open"

\* C24: every request whose registry operation fails - create, attach,
\* detach, send_input, resize, read_output or terminate named in a control
\* message, or send_input for a raw-bytes frame routed through the binding -
\* is answered with an Error reply, and its connection stays open.
C24_FailuresReported ==
    [][\A k \in ConnIds :
        /\ \A s \in SessionIds :
            /\ \A ok \in BOOLEAN :
                  (CreateSession(k, s, ok)
                     /\ ~create_session(sessions, s, now, ok).ok)
                      => Reported(k)
            /\ \A c \in ClientIds :
                  (AttachToSession(k, s, c)
                     /\ ~attach_client_to_session(sessions, s, c, now).ok)
                      => Reported(k)
            /\ \A c \in ClientIds :
                  (DetachFromSession(k, s, c)
                     /\ ~detach_client_from_session(sessions, s, c, now).ok)
                      => Reported(k)
            /\ \A d \in Chunks :
                  (SendInput(k, s, d)
                     /\ ~send_input_to_session(sessions, s, d, now).ok)
                      => Reported(k)
            /\ \A ok \in BOOLEAN :
                  (ResizeSession(k, s, ok) /\ ~resize_session(sessions, s, ok).ok)
                      => Reported(k)
            /\ (ReadOutput(k, s)
                  /\ ~read_output_from_session(sessions, s, now).ok)
                      => Reported(k)
            /\ (TerminateSession(k, s) /\ ~terminate_session(sessions, s).ok)
                      => Reported(k)
        /\ \A d \in Chunks :
              (RawBytes(k, d) /\ k \in DOMAIN client_sessions
                 /\ ~send_input_to_session(sessions, client_sessions[k], d,
                                            now).ok)
                  => Reported(k)]_vars

\* C25: once a connection has received a Disconnect message it is no longer
\* open for frames: the next thing that happens on it is its cleanup, which
\* closes it, and no frame that arrives on it afterwards is handled.
C25_DisconnectEndsConnection ==
    [][\A k \in ConnIds :
        (last.op = "Disconnect" /\ last.conn = k /\ last' # last
           /\ last'.conn = k)
            => last'.op = "Close" /\ conns'[k] = "closed"]_vars

\* C26: a CreateSession for an id that is not in the registry, with a PTY
\* that spawns, inserts a fresh session whose attached list is exactly the
\* creating connection's id, binds that id to the session and is answered
\* SessionCreated; a CreateSession that fails is answered with an Error and
\* changes neither the registry nor any binding.
C26_CreateAttachesCreator ==
    [][\A k \in ConnIds, s \in SessionIds, ok \in BOOLEAN :
        CreateSession(k, s, ok)
            => IF s \notin DOMAIN sessions /\ ok
               THEN /\ sessions' =
                        Put(sessions, s,
                            [NewSession(now) EXCEPT !.attached_clients = <<k>>])
                    /\ client_sessions' = Put(client_sessions, k, s)
                    /\ last'.reply = "SessionCreated"
               ELSE /\ IsError(last'.reply)
                    /\ Unchanged]_vars

\* A connection that was attached and bound to one session has created
\* another: it is the only client of the new one and is now bound to it.
C26_Witness ==
    /\ last.op = "CreateSession"
    /\ last.reply = "SessionCreated"
    /\ Attached(last.sid) = <<last.conn>>
    /\ client_sessions[last.conn] = last.sid
    /\ \E s \in DOMAIN sessions \ {last.sid} :
          Contains(Attached(s), last.conn)

\* C27: the sweep - the one removal the daemon makes on its own - removes no
\* session whose shell has exited while output chunks are still queued: such
\* a session stays, with its queue as it is, for reads to drain it before
\* they are answered not-found.
C27_UnreadOutputKept ==
    [][Sweep =>
        \A s \in DOMAIN sessions :
            (sessions[s].child = "exited" /\ sessions[s].output # <<>>)
                => /\ s \in DOMAIN sessions'
                   /\ sessions'[s].output = sessions[s].output]_vars

\* What the workers of session s have in hand on the PTY.
PtyCalls(s) == <<pty[s].writing, pty[s].reading, pty[s].written>>

PlaceInFrame(i) == ((i - 1) % Len(FrameParts)) + 1

FrameStart(i) == i - (PlaceInFrame(i) - 1)

\* C29: what has been written to the socket of a connection is whole frames
\* one after the other - prefix, tag and payload of one frame, then of the
\* next - followed at most by the first parts of the frame that the holder
\* of the write-half mutex is writing.
C29_FramesWhole ==
    \A k \in ConnIds :
        LET sent == peer[k].sent
        IN /\ \A i \in 1..Len(sent) :
                 /\ sent[i].part = FrameParts[PlaceInFrame(i)]
                 /\ sent[i].frame = sent[FrameStart(i)].frame
           /\ Len(sent) % Len(FrameParts) = peer[k].wpos
           /\ peer[k].wpos # 0 => peer[k].wlock # "free"

\* The pusher has a chunk to write and waits for the write half while the
\* message loop is in the middle of a reply; frames of both kinds are on the
\* socket already.
C29_Witness ==
    \E k \in ConnIds :
        /\ peer[k].wlock = "reply"
        /\ peer[k].wpos = 1
        /\ peer[k].push.pc = "write"
        /\ \E i, j \in 1..Len(peer[k].rcvd) :
              peer[k].rcvd[i].via = "push" /\ peer[k].rcvd[j].via = "reply"

\* Connection k is open and bound to session s.
Bound(k, s) ==
    /\ conns[k] = "open"
    /\ k \in DOMAIN client_sessions
    /\ client_sessions[k] = s

\* Chunk n of session s is on the socket of some connection as a raw-bytes
\* frame written by its pusher.
Pushed(s, n) ==
    \E k \in ConnIds :
        \E i \in 1..Len(peer[k].rcvd) :
            peer[k].rcvd[i] = [via |-> "push", sid |-> s, chunk |-> n]

\* C30: every chunk the output task of S has enqueued is eventually written
\* to a socket as a raw-bytes frame by a pusher, as long as some connection
\* stays open and bound to S.
C30_EveryChunkPushed ==
    \A s \in OneSession, n \in 1..MaxChunks :
        (pty[s].produced >= n)
            ~> (Pushed(s, n) \/ \A k \in ConnIds : ~Bound(k, s))

\* C31: a turn of the input task whose write to the PTY fails is its last:
\* the writer worker of the session has stopped after it.
C31_WriteFailureStopsWriter ==
    [][\A s \in OneSession :
        (PtyWrite(s) /\ sessions[s].child = "exited")
            => sessions'[s].writer = "stopped"]_vars

\* The session s had is out of the registry.
Dropped(s) == pty[s].shell # "none" /\ s \notin DOMAIN sessions

\* C32: after a session is terminated or swept, its writer worker and its
\* reader worker both eventually stop.
C32_WorkersStop ==
    \A s \in OneSession :
        Dropped(s)
          ~> (pty[s].input_task = "done" /\ pty[s].output_task = "done")

C32_WriterStops ==
    \A s \in OneSession : Dropped(s) ~> pty[s].input_task = "done"

\* The frame waiting on connection k decodes to raw bytes.
BytesFrame(k) ==
    LET r == read_from_stream(wire[k].frame)
    IN r.ok /\ r.msg.type = "Bytes"

\* C33: a raw-bytes frame read on a connection whose client id has no
\* binding changes no session and no binding, is answered with nothing, and
\* leaves the connection open with its message loop running.
C33_UnboundBytesDropped ==
    [][\A k \in ConnIds :
        (ReadFrame(k) /\ BytesFrame(k) /\ k \notin DOMAIN client_sessions)
            => /\ sessions' = sessions
               /\ client_sessions' = client_sessions
               /\ last'.reply = "None"
               /\ peer' = peer
               /\ conns'[k] = "open"
               /\ wire'[k].state = "reading"]_vars

\* A raw-bytes frame has just been read on an open connection without a
\* binding while the other connection is bound to a session.
C33_Witness ==
    \E k \in ConnIds : \E j \in ConnIds \ {k} :
        /\ last.op = "RawBytes" /\ last.conn = k /\ last.sid = "none"
        /\ conns[k] = "open"
        /\ wire[k].phase = "read"
        /\ wire[k].result.ok /\ wire[k].result.msg.type = "Bytes"
        /\ k \notin DOMAIN client_sessions
        /\ j \in DOMAIN client_sessions
        /\ client_sessions[j] \in DOMAIN sessions

\* C34: a raw-bytes frame of connection k adds input only to a session
\* whose attached list holds k at that moment.
C34_BytesOnlyToAttached ==
    [][\A k \in ConnIds, d \in Chunks :
        RawBytes(k, d)
            => \A s \in DOMAIN sessions :
                  sessions'[s].input # sessions[s].input
                     => Contains(Attached(s), k)]_vars

\* The binding of client id c and the sessions that list it as attached.
Holding(c) ==
    <<IF c \in DOMAIN client_sessions THEN client_sessions[c] ELSE "none",
      {s \in DOMAIN sessions : Contains(Attached(s), c)}>>

\* C35: an AttachToSession, DetachFromSession or Disconnect received on
\* connection k leaves the binding and the attachments of every other open
\* connection's client id as they were.
C35_OwnBindingOnly ==
    [][\A k \in ConnIds, c \in ConnIds :
        (\/ \E s \in OneSession : AttachToSession(k, s, c)
         \/ \E s \in OneSession : DetachFromSession(k, s, c)
         \/ Disconnect(k, c))
            => \A j \in ConnIds \ {k} :
                  conns[j] = "open" => Holding(j)' = Holding(j)]_vars

\* Chunk n of session s is still in the output channel of s.
Queued(s, n) ==
    /\ s \in DOMAIN sessions
    /\ \E i \in 1..Len(sessions[s].output) : sessions[s].output[i] = n

\* Chunk n of session s is on the socket of some connection.
OnSocket(s, n) ==
    \E k \in ConnIds : \E i \in 1..Len(peer[k].rcvd) :
        peer[k].rcvd[i].sid = s /\ peer[k].rcvd[i].chunk = n

\* Chunk n of session s is in the hands of a running pusher, between its
\* dequeue and its write.
InHand(s, n) ==
    \E k \in ConnIds :
        /\ conns[k] = "open"
        /\ peer[k].push.pc = "write"
        /\ peer[k].push.sid = s
        /\ peer[k].push.data = <<n>>

\* C36: every chunk the output task has enqueued is in the channel, on a
\* socket, or held by a running pusher that is about to write it.
C36_NoChunkLost ==
    \A s \in OneSession : \A n \in 1..pty[s].produced :
        Queued(s, n) \/ OnSocket(s, n) \/ InHand(s, n)

\* The binding of connection k is the session its pusher is working on.
StillBound(k) ==
    k \in DOMAIN client_sessions /\ client_sessions[k] = peer[k].push.sid

\* C37: the pusher of connection k takes a chunk from a session's output
\* channel, and writes a chunk of a session to the socket, only while the
\* binding of k is that session.
C37_PusherFollowsBinding ==
    [][\A k \in ConnIds :
        /\ (PusherRead(k) /\ peer'[k].push.pc = "write") => StillBound(k)
        /\ PusherWrite(k) => StillBound(k)]_vars

C37_DequeueFollowsBinding ==
    [][\A k \in ConnIds :
        (PusherRead(k) /\ peer'[k].push.pc = "write") => StillBound(k)]_vars

\* The number of times chunk n of session s has been written to a socket,
\* as a pushed frame or as a SessionOutput response.
Delivered(s, n) ==
    Cardinality({ki \in ConnIds \X (1..MaxChunks) :
        /\ ki[2] <= Len(peer[ki[1]].rcvd)
        /\ peer[ki[1]].rcvd[ki[2]].sid = s
        /\ peer[ki[1]].rcvd[ki[2]].chunk = n})

\* The number of places chunk n of session s is waiting in: the output
\* channel, a running pusher between dequeue and write, a response the
\* message loop of an open connection is about to write.
Waiting(s, n) ==
    Cardinality({i \in 1..MaxChunks :
        /\ s \in DOMAIN sessions
        /\ i <= Len(sessions[s].output)
        /\ sessions[s].output[i] = n})
    + Cardinality({k \in ConnIds :
        /\ conns[k] = "open"
        /\ peer[k].push.pc = "write"
        /\ peer[k].push.sid = s
        /\ peer[k].push.data = <<n>>})
    + Cardinality({k \in ConnIds :
        /\ conns[k] = "open"
        /\ peer[k].pending # <<>>
        /\ peer[k].pending[1].sid = s
        /\ peer[k].pending[1].chunk = n})

\* C38: every chunk the output task has enqueued is delivered to exactly one
\* consumer, once, or is still on its way to one.
C38_ExactlyOneConsumer ==
    \A s \in OneSession : \A n \in 1..MaxChunks :
        Delivered(s, n) + Waiting(s, n) = IF n <= pty[s].produced THEN 1 ELSE 0

\* No chunk is delivered twice, nor delivered and still waiting, and no
\* chunk is delivered that the output task did not enqueue.
C38_AtMostOneConsumer ==
    \A s \in OneSession : \A n \in 1..MaxChunks :
        Delivered(s, n) + Waiting(s, n) <= IF n <= pty[s].produced THEN 1 ELSE 0

\* C39: the holder of the daemon mutex is never a task that waits for a
\* write half or writes to a socket - not a message loop with a response
\* to write, not a pusher with a chunk to write - and it can always take
\* its step and give the mutex back; when the mutex is free, the cleanup
\* task, every message loop that has read a frame and every pusher can
\* take it, whatever the state of any socket.
C39_NoSocketWaitUnderMutex ==
    [][/\ \A k \in ConnIds :
            /\ mutex = k => Idle(k)
            /\ mutex = Pusher(k) => peer[k].push.pc # "write"
            /\ mutex = k =>
                  \A s \in OneSession :
                      /\ ENABLED LockedCreateSession(k, s)
                      /\ ENABLED HandleReadOutput(k, s)
            /\ mutex = Pusher(k) =>
                  ENABLED PusherLooksUp(k) \/ ENABLED PusherDequeues(k)
       /\ mutex = "sweep" => ENABLED LockedSweep
       /\ mutex = "free" =>
            /\ ENABLED SweepLocks
            /\ \A k \in ConnIds :
                  (conns[k] = "open" /\ Idle(k)) => ENABLED DispatcherLocks(k)
            /\ \A k \in ActiveConns :
                  (conns[k] = "open" /\ peer[k].push.pc # "write")
                     => ENABLED PusherLocks(k)]_vars

\* The client of one connection has stopped reading: its pusher is stuck in
\* the middle of a frame, holding the write half, and its message loop
\* waits for the write half with a response; the other connection holds
\* the daemon mutex for its next request.
C39_Witness ==
    \E k \in ConnIds : \E j \in ConnIds \ {k} :
        /\ peer[k].client = "stalled"
        /\ peer[k].wlock = "push"
        /\ peer[k].wpos > 0
        /\ ~Idle(k)
        /\ conns[j] = "open"
        /\ mutex = j

====
